---- MODULE Spec2Model ----
(***************************************************************************)
(* Model of streamlit_lessdata_morefilter_w2_wage_change_tracker: a        *)
(* Streamlit script that reads a payroll spreadsheet, rebuilds its wrapped *)
(* header, keeps the Regular payroll records, filters them by the sidebar  *)
(* controls, averages a target column per month and draws the series.      *)
(*                                                                         *)
(* A string that the script inspects character by character (a header      *)
(* cell) is a sequence of atoms: an atom is one whitespace character or    *)
(* one maximal run of non-whitespace characters.  A date is <<y, m, d>>.   *)
(* A DataFrame is a sequence of rows; a row is a function from column      *)
(* label to value.                                                         *)
(***************************************************************************)
EXTENDS Integers, Sequences, FiniteSets, TLC

VARIABLES
    file,                            \* the spreadsheet: header block and data region
    pc,                              \* position of the script run
    runs,                            \* script runs started in this session
    stage,                           \* last stage entered by the current run (0: none)
    execs,                           \* execs[s]: times stage s was entered in this session
    cleaned_header,
    wage_report_df,
    wage_report_regular_payroll_df,
    selected_date_range,
    employee_name_input,
    selected_job_title,
    selected_job_function,
    selected_job_category,
    selected_insperity_client_name,
    filtered_df,
    selected_target_variable,
    average_payroll_cost,
    ylim,
    display

vars == <<file, pc, runs, stage, execs, cleaned_header, wage_report_df,
          wage_report_regular_payroll_df, selected_date_range,
          employee_name_input, selected_job_title, selected_job_function,
          selected_job_category, selected_insperity_client_name, filtered_df,
          selected_target_variable, average_payroll_cost, ylim, display>>

----------------------------------------------------------------------------
(* Bounds of the model *)

MaxRows == 3          \* data rows of the spreadsheet before its trailer
MaxRuns == 2          \* script runs in one session
MaxCell == 1          \* atoms in one header cell (header specification)

----------------------------------------------------------------------------
(* Strings as sequences of atoms *)

Whitespace == {" ", "\t"}

IsSpace(c) == c \in Whitespace

\* str.strip(): drop leading and trailing whitespace
RECURSIVE LStrip(_)
LStrip(s) ==
    IF s = <<>> THEN <<>>
    ELSE IF IsSpace(Head(s)) THEN LStrip(Tail(s)) ELSE s

RECURSIVE RStrip(_)
RStrip(s) ==
    IF s = <<>> THEN <<>>
    ELSE IF IsSpace(s[Len(s)]) THEN RStrip(SubSeq(s, 1, Len(s) - 1)) ELSE s

Strip(s) == RStrip(LStrip(s))

\* the pattern r'\s' in place of r'\s+': every whitespace character becomes a space
RECURSIVE CollapseEach(_)
CollapseEach(s) ==
    IF s = <<>> THEN <<>>
    ELSE IF IsSpace(Head(s))
         THEN <<" ">> \o CollapseEach(Tail(s))
         ELSE <<Head(s)>> \o CollapseEach(Tail(s))

\* str.replace(r'\s+', ' ', regex=True): every maximal whitespace run becomes one space
RECURSIVE CollapseSpaces(_)
CollapseSpaces(s) ==
    IF s = <<>> THEN <<>>
    ELSE IF IsSpace(Head(s))
         THEN <<" ">> \o CollapseSpaces(LStrip(Tail(s)))
         ELSE <<Head(s)>> \o CollapseSpaces(Tail(s))

\* a header cell: blank (NaN) or text
Blank == [isna |-> TRUE, s |-> <<>>]
Txt(s) == [isna |-> FALSE, s |-> s]

\* fillna(' ').astype(str)
FillNa(cell) == IF cell.isna THEN <<" ">> ELSE cell.s

\* ' '.join over the four header rows of one column
RECURSIVE Join(_)
Join(cells) ==
    IF Len(cells) = 0 THEN <<>>
    ELSE IF Len(cells) = 1 THEN FillNa(cells[1])
    ELSE FillNa(cells[1]) \o <<" ">> \o Join(Tail(cells))

CombinedHeader(hdr) == [c \in 1..Len(hdr) |-> Join(hdr[c])]

CleanLabel(s) == CollapseSpaces(Strip(s))

CleanedHeader(hdr) ==
    LET combined == CombinedHeader(hdr)
    IN  [c \in 1..Len(hdr) |-> CleanLabel(combined[c])]

----------------------------------------------------------------------------
(* Dates and periods *)

NaT == <<0, 0, 0>>

DateLE(a, b) ==
    \/ a[1] < b[1]
    \/ a[1] = b[1] /\ a[2] < b[2]
    \/ a[1] = b[1] /\ a[2] = b[2] /\ a[3] <= b[3]

\* pd.to_datetime(..., errors="coerce"): an unparsable cell becomes NaT
ToDatetime(cell) == IF cell.ok THEN cell.ymd ELSE NaT

\* .dt.to_period("M").dt.to_timestamp(): the first day of the month
MonthBucket(d) == <<d[1], d[2], 1>>

MonthAbbr == <<"Jan", "Feb", "Mar", "Apr", "May", "Jun",
               "Jul", "Aug", "Sep", "Oct", "Nov", "Dec">>

\* the format "%b" in place of "%b-%Y"
PeriodLabelMonthOnly(p) == <<MonthAbbr[p[2]]>>

\* .dt.strftime("%b-%Y")
PeriodLabel(p) == <<MonthAbbr[p[2]], "-", p[1]>>

----------------------------------------------------------------------------
(* Column labels *)

EmployeeName == <<"Employee", " ", "Name">>
EmployeeID == <<"Employee", " ", "ID">>
JobTitle == <<"Job", " ", "Title">>
JobFunction == <<"Job", " ", "Function">>
JobCategory == <<"Job", " ", "Category">>
InsperityClientName == <<"Insperity", " ", "Client", " ", "Name">>
PayrollType == <<"Payroll", " ", "Type">>
PeriodEndDate == <<"Period", " ", "End", " ", "Date">>
GrossPayAmount == <<"Gross", " ", "Pay", " ", "Amount">>
PayrollCostAmount == <<"Payroll", " ", "Cost", " ", "Amount">>
MMYYYYPayOnly == <<"MM/YYYY", " ", "Pay", " ", "Only">>

string_columns == {EmployeeID}

columns_to_keep == {EmployeeName, EmployeeID, JobTitle, InsperityClientName,
                    JobCategory, JobFunction, PayrollType, PeriodEndDate,
                    GrossPayAmount, PayrollCostAmount}

target_variable_options == <<GrossPayAmount, PayrollCostAmount>>

All == "All"
Regular == "Regular"
NaN == "NaN"

\* rows dropped from the end of the table by head(-4)
TrailerRows == 4

----------------------------------------------------------------------------
(* The spreadsheets considered *)

\* rows 7-10 of the sheet, one entry per column: the wrapped header
HeaderBlock ==
    << <<Blank, Blank, Txt(<<"Employee", " ">>), Txt(<<" ", "Name">>)>>,
       <<Blank, Blank, Txt(<<"Employee">>), Txt(<<"ID", "\t">>)>>,
       <<Blank, Blank, Txt(<<"Job">>), Txt(<<"Title">>)>>,
       <<Blank, Txt(<<"Work">>), Blank, Txt(<<"State">>)>>,
       <<Blank, Txt(<<"Insperity">>), Txt(<<"Client">>), Txt(<<"Name">>)>>,
       <<Blank, Blank, Txt(<<"Job", " ", " ">>), Txt(<<"Category">>)>>,
       <<Blank, Blank, Txt(<<"Job">>), Txt(<<"Function">>)>>,
       <<Blank, Blank, Txt(<<"Payroll">>), Txt(<<"Type">>)>>,
       <<Blank, Txt(<<"Period">>), Txt(<<"End">>), Txt(<<"Date">>)>>,
       <<Txt(<<"Gross">>), Blank, Txt(<<"Pay">>), Txt(<<"Amount">>)>>,
       <<Blank, Txt(<<"Payroll">>), Txt(<<"Cost">>), Txt(<<"Amount">>)>> >>

\* the same sheet with the Job Function column exported under another label
HeaderBlockRenamed ==
    [HeaderBlock EXCEPT ![7] = <<Blank, Blank, Txt(<<"Job">>), Txt(<<"Func">>)>>]

HeaderSamples == {HeaderBlock, HeaderBlockRenamed}

D(y, m, d) == [ok |-> TRUE, ymd |-> <<y, m, d>>]
BadDate == [ok |-> FALSE, ymd |-> NaT]

\* data rows, cell by cell in the column order of HeaderBlock
Master ==
    << <<"Ann", 11, "RN",  "TX", "Altea", "Clinical", "Nursing", "Regular", D(2024, 1, 15), 90, 100>>,
       <<"Bob", 12, "LPN", "TX", "Altea", "Clinical", "Nursing", "Regular", D(2024, 1, 31), 180, 200>>,
       <<"Ann", 11, "RN",  "TX", "Birch", NaN,        "Admin",   "Regular", D(2024, 2, 10), 310, 300>>,
       <<"Bob", 12, "RN",  "OK", "Altea", "Office",   "Nursing", "Bonus",   D(2024, 2, 20), 40, 50>>,
       <<"Bob", 12, "LPN", "OK", "Altea", "Office",   "Admin",   "Regular", D(2025, 1, 5),  400, 420>>,
       <<"Cy",  13, "RN",  "OK", "Altea", "Office",   "Admin",   "Regular", BadDate,        500, 520>> >>

\* the totals block that ends the sheet
TotalsRow == <<NaN, 0, NaN, NaN, NaN, NaN, NaN, NaN, BadDate, 1300, 1400>>

Trailer == [i \in 1..TrailerRows |-> TotalsRow]

RECURSIVE Pick(_, _)
Pick(I, k) ==
    IF k > Len(Master) THEN <<>>
    ELSE IF k \in I THEN <<Master[k]>> \o Pick(I, k + 1)
    ELSE Pick(I, k + 1)

DataRegions ==
    {Pick(I, 1) \o Trailer :
        I \in {J \in SUBSET (1..Len(Master)) : Cardinality(J) <= MaxRows}}

Files == [header : HeaderSamples, data : DataRegions]

\* the positions the date slider is moved to
SliderStops == {<<2024, 1, 1>>, <<2024, 1, 15>>, <<2024, 2, 1>>, <<2025, 1, 1>>}

----------------------------------------------------------------------------
(* DataFrame helpers *)

Range(f) == {f[i] : i \in DOMAIN f}

Column(df, col) == {df[i][col] : i \in 1..Len(df)}

\* df.head(-n): all rows but the last n
HeadDrop(df, n) == IF Len(df) <= n THEN <<>> ELSE SubSeq(df, 1, Len(df) - n)

\* wage_report_df.columns = cleaned_header
MkRow(hdr, cells) ==
    [l \in Range(hdr) |-> cells[CHOOSE c \in 1..Len(hdr) : hdr[c] = l]]

\* .astype(str)
AsStr(v) == [str |-> v]

CastStrings(row) ==
    [l \in DOMAIN row |-> IF l \in string_columns THEN AsStr(row[l]) ELSE row[l]]

\* wage_report_df.loc[:, columns_to_keep]
Project(row) == [l \in columns_to_keep |-> row[l]]

ParseDate(row) == [row EXCEPT ![PeriodEndDate] = ToDatetime(row[PeriodEndDate])]

\* dropna(subset=["Period End Date"])
DropNaT(df) == SelectSeq(df, LAMBDA r : r[PeriodEndDate] # NaT)

AddBucket(row) ==
    [l \in DOMAIN row \cup {MMYYYYPayOnly} |->
        IF l = MMYYYYPayOnly THEN MonthBucket(row[PeriodEndDate]) ELSE row[l]]

\* the Payroll Type filter left out
KeepAllPayrollTypes(df) == df

\* df[df["Payroll Type"] == "Regular"]
RegularOnly(df) == SelectSeq(df, LAMBDA r : r[PayrollType] = Regular)

\* lines 42-65
ImportantColumns(df) ==
    LET projected == [i \in 1..Len(df) |-> Project(df[i])]
        kept == HeadDrop(projected, TrailerRows)
        dated == DropNaT([i \in 1..Len(kept) |-> ParseDate(kept[i])])
    IN  [i \in 1..Len(dated) |-> AddBucket(dated[i])]

\* Series.min() / Series.max() of the month column
MinDate(S) == CHOOSE d \in S : \A e \in S : DateLE(d, e)
MaxDate(S) == CHOOSE d \in S : \A e \in S : DateLE(e, d)

\* element-wise == of a column with a scalar: a missing value equals nothing
PdEq(a, b) == a # NaN /\ b # NaN /\ a = b

----------------------------------------------------------------------------
(* Stage 4: the filters, lines 87-127 *)

\* the upper bound of the range left out
DateRangeFilterFrom(df, range) ==
    SelectSeq(df, LAMBDA r : DateLE(range[1], r[MMYYYYPayOnly]))

DateRangeFilter(df, range) ==
    SelectSeq(df, LAMBDA r : /\ DateLE(range[1], r[MMYYYYPayOnly])
                             /\ DateLE(r[MMYYYYPayOnly], range[2]))

EmployeeNameFilter(df, names) ==
    IF names # {} THEN SelectSeq(df, LAMBDA r : r[EmployeeName] \in names) ELSE df

\* the filter taken from the unfiltered frame instead of the working subset
JobTitleFilterFromBase(df, sel) ==
    IF sel # All
    THEN SelectSeq(wage_report_regular_payroll_df, LAMBDA r : PdEq(r[JobTitle], sel))
    ELSE df

JobTitleFilter(df, sel) ==
    IF sel # All THEN SelectSeq(df, LAMBDA r : PdEq(r[JobTitle], sel)) ELSE df

JobFunctionFilter(df, sel) ==
    IF sel # All THEN SelectSeq(df, LAMBDA r : PdEq(r[JobFunction], sel)) ELSE df

\* the "All" sentinel compared like any other value
JobCategoryFilterNoSentinel(df, sel) ==
    SelectSeq(df, LAMBDA r : PdEq(r[JobCategory], sel))

JobCategoryFilter(df, sel) ==
    IF sel # All THEN SelectSeq(df, LAMBDA r : PdEq(r[JobCategory], sel)) ELSE df

ClientNameFilter(df, sel) ==
    IF sel # All THEN SelectSeq(df, LAMBDA r : PdEq(r[InsperityClientName], sel)) ELSE df

\* lines 116-127
CategoricalFilters(df, title, func, cat, client) ==
    ClientNameFilter(JobCategoryFilter(JobFunctionFilter(JobTitleFilter(df, title), func), cat), client)

----------------------------------------------------------------------------
(* Stage 5: the aggregation, lines 143-157 *)

RECURSIVE SumCol(_, _)
SumCol(df, col) == IF df = <<>> THEN 0 ELSE Head(df)[col] + SumCol(Tail(df), col)

RECURSIVE GCD(_, _)
GCD(a, b) == IF b = 0 THEN a ELSE GCD(b, a % b)

\* an exact quotient, in lowest terms
Frac(n, d) == LET g == GCD(n, d) IN [num |-> n \div g, den |-> d \div g]

\* Series.sum() in place of Series.mean()
SumOnly(df, col) == Frac(SumCol(df, col), 1)

\* Series.mean()
Mean(df, col) == Frac(SumCol(df, col), Len(df))

\* the group keys in ascending order, as groupby lists them
RECURSIVE SortedKeys(_)
SortedKeys(S) ==
    IF S = {} THEN <<>>
    ELSE LET m == MinDate(S) IN <<m>> \o SortedKeys(S \ {m})

\* df.groupby("MM/YYYY Pay Only")[target].mean().reset_index(), columns renamed
GroupByMean(df, target) ==
    LET keys == SortedKeys(Column(df, MMYYYYPayOnly))
    IN  [k \in 1..Len(keys) |->
            [Period |-> keys[k],
             Average |-> Mean(SelectSeq(df, LAMBDA r : r[MMYYYYPayOnly] = keys[k]), target)]]

\* sort_values(by="Period"): a stable insertion sort
RECURSIVE Insert(_, _)
Insert(sorted, row) ==
    IF sorted = <<>> THEN <<row>>
    ELSE IF DateLE(Head(sorted).Period, row.Period)
         THEN <<Head(sorted)>> \o Insert(Tail(sorted), row)
         ELSE <<row>> \o sorted

RECURSIVE SortByPeriod(_)
SortByPeriod(series) ==
    IF series = <<>> THEN <<>>
    ELSE Insert(SortByPeriod(SubSeq(series, 1, Len(series) - 1)), series[Len(series)])

AddPeriodLabel(series) ==
    [i \in 1..Len(series) |->
        [Period |-> series[i].Period, Average |-> series[i].Average,
         PeriodLabel |-> PeriodLabel(series[i].Period)]]

AveragePayrollCost(df, target) == AddPeriodLabel(SortByPeriod(GroupByMean(df, target)))

----------------------------------------------------------------------------
(* Stage 6: the chart, lines 159-184 *)

\* the minimum taken over the filtered subset (0 stands for that of an empty column)
GlobalMinFiltered(df, target) ==
    LET S == {filtered_df[i][target] : i \in 1..Len(filtered_df)}
    IN  IF S = {} THEN 0 ELSE CHOOSE v \in S : \A w \in S : v <= w

GlobalMin(df, target) ==
    LET S == Column(df, target) IN CHOOSE v \in S : \A w \in S : v <= w

GlobalMax(df, target) ==
    LET S == Column(df, target) IN CHOOSE v \in S : \A w \in S : w <= v

\* sns.lineplot(...) on the series: matplotlib draws a non-empty series; what
\* the plotting library does with an empty one depends on its version
PlotOutcomes(series) == IF series = <<>> THEN {"chart", "exception"} ELSE {"chart"}

----------------------------------------------------------------------------
(* The script *)

Stages == 1..6

NoFrame == <<>>

filterVars == <<selected_date_range, employee_name_input, selected_job_title,
                selected_job_function, selected_job_category,
                selected_insperity_client_name, filtered_df>>

\* a fresh run of the script: nothing is bound yet
Unbound ==
    /\ cleaned_header = <<>>
    /\ wage_report_df = NoFrame
    /\ wage_report_regular_payroll_df = NoFrame
    /\ selected_date_range = <<>>
    /\ employee_name_input = {}
    /\ selected_job_title = All
    /\ selected_job_function = All
    /\ selected_job_category = All
    /\ selected_insperity_client_name = All
    /\ filtered_df = NoFrame
    /\ selected_target_variable = <<>>
    /\ average_payroll_cost = <<>>
    /\ ylim = <<>>

Enter(s) ==
    /\ stage' = s
    /\ execs' = [execs EXCEPT ![s] = @ + 1]
    /\ UNCHANGED <<file, runs>>

\* an uncaught exception ends the run; Streamlit shows the traceback
Raise ==
    /\ pc' = "fault"
    /\ display' = "exception"

Init ==
    /\ file \in Files
    /\ pc = "start"
    /\ runs = 1
    /\ stage = 0
    /\ execs = [s \in Stages |-> 0]
    /\ display = "none"
    /\ Unbound

\* stage 1, lines 9-16
HeaderReconstructor ==
    /\ pc = "start"
    /\ Enter(1)
    /\ cleaned_header' = CleanedHeader(file.header)
    /\ pc' = "header"
    /\ UNCHANGED <<wage_report_df, wage_report_regular_payroll_df, filterVars,
                   selected_target_variable, average_payroll_cost, ylim, display>>

\* stage 2, lines 18-26
RecordLoader ==
    /\ pc = "header"
    /\ Enter(2)
    /\ IF \/ \E i \in 1..Len(file.data) : Len(file.data[i]) # Len(cleaned_header)
          \/ ~(string_columns \subseteq Range(cleaned_header))
       THEN /\ Raise
            /\ UNCHANGED wage_report_df
       ELSE /\ wage_report_df' =
                  [i \in 1..Len(file.data) |->
                      CastStrings(MkRow(cleaned_header, file.data[i]))]
            /\ pc' = "loaded"
            /\ UNCHANGED display
    /\ UNCHANGED <<cleaned_header, wage_report_regular_payroll_df, filterVars,
                   selected_target_variable, average_payroll_cost, ylim>>

\* stage 3, lines 28-65
ColumnProjector ==
    /\ pc = "loaded"
    /\ Enter(3)
    /\ IF ~(columns_to_keep \subseteq Range(cleaned_header))
       THEN /\ Raise
            /\ UNCHANGED wage_report_regular_payroll_df
       ELSE /\ wage_report_regular_payroll_df' =
                  RegularOnly(ImportantColumns(wage_report_df))
            /\ pc' = "projected"
            /\ UNCHANGED display
    /\ UNCHANGED <<cleaned_header, wage_report_df, filterVars,
                   selected_target_variable, average_payroll_cost, ylim>>

\* the values the sidebar widgets can return, lines 75-114
SliderValues(df) ==
    LET months == Column(df, MMYYYYPayOnly)
        min_date == MinDate(months)
        max_date == MaxDate(months)
        stops == {d \in SliderStops \cup {min_date, max_date} :
                      DateLE(min_date, d) /\ DateLE(d, max_date)}
    IN  {r \in stops \X stops : DateLE(r[1], r[2])}

Options(df, col) == {All} \cup Column(df, col)

\* stage 4, lines 72-127
FilterStage ==
    /\ pc = "projected"
    /\ Enter(4)
    /\ IF wage_report_regular_payroll_df = <<>>
       THEN /\ Raise
            /\ UNCHANGED filterVars
       ELSE /\ \E range \in SliderValues(wage_report_regular_payroll_df),
                  names \in SUBSET Column(wage_report_regular_payroll_df, EmployeeName) :
                  LET dated == DateRangeFilter(wage_report_regular_payroll_df, range)
                      named == EmployeeNameFilter(dated, names)
                  IN  \E title \in Options(named, JobTitle),
                         func \in Options(named, JobFunction),
                         cat \in Options(named, JobCategory),
                         client \in Options(named, InsperityClientName) :
                         /\ selected_date_range' = range
                         /\ employee_name_input' = names
                         /\ selected_job_title' = title
                         /\ selected_job_function' = func
                         /\ selected_job_category' = cat
                         /\ selected_insperity_client_name' = client
                         /\ filtered_df' = CategoricalFilters(named, title, func, cat, client)
            /\ pc' = "filtered"
            /\ UNCHANGED display
    /\ UNCHANGED <<cleaned_header, wage_report_df, wage_report_regular_payroll_df,
                   selected_target_variable, average_payroll_cost, ylim>>

\* stage 5, lines 129-157
Aggregator ==
    /\ pc = "filtered"
    /\ Enter(5)
    /\ \E target \in Range(target_variable_options) :
          /\ selected_target_variable' = target
          /\ average_payroll_cost' = AveragePayrollCost(filtered_df, target)
    /\ pc' = "aggregated"
    /\ UNCHANGED <<cleaned_header, wage_report_df, wage_report_regular_payroll_df,
                   filterVars, ylim, display>>

\* stage 6, lines 159-184
Renderer ==
    /\ pc = "aggregated"
    /\ Enter(6)
    /\ \E outcome \in PlotOutcomes(average_payroll_cost) :
          IF outcome = "chart"
          THEN /\ ylim' = <<GlobalMin(wage_report_regular_payroll_df, selected_target_variable),
                           GlobalMax(wage_report_regular_payroll_df, selected_target_variable)>>
               /\ display' = "chart"
               /\ pc' = "done"
          ELSE /\ Raise
               /\ UNCHANGED ylim
    /\ UNCHANGED <<cleaned_header, wage_report_df, wage_report_regular_payroll_df,
                   filterVars, selected_target_variable, average_payroll_cost>>

\* a rerun that keeps the loaded table, as a cached loader would
ControlChangeCached ==
    /\ \/ pc = "done"
       \/ pc = "fault" /\ stage = 6
    /\ runs < MaxRuns
    /\ runs' = runs + 1
    /\ pc' = "projected"
    /\ stage' = 3
    /\ display' = "none"
    /\ selected_date_range' = <<>>
    /\ employee_name_input' = {}
    /\ selected_job_title' = All
    /\ selected_job_function' = All
    /\ selected_job_category' = All
    /\ selected_insperity_client_name' = All
    /\ filtered_df' = NoFrame
    /\ selected_target_variable' = <<>>
    /\ average_payroll_cost' = <<>>
    /\ ylim' = <<>>
    /\ UNCHANGED <<file, execs, cleaned_header, wage_report_df,
                   wage_report_regular_payroll_df>>

\* the user changes a sidebar control: Streamlit runs the script again from its first line
ControlChange ==
    /\ \/ pc = "done"
       \/ pc = "fault" /\ stage = 6
    /\ runs < MaxRuns
    /\ runs' = runs + 1
    /\ pc' = "start"
    /\ stage' = 0
    /\ display' = "none"
    /\ cleaned_header' = <<>>
    /\ wage_report_df' = NoFrame
    /\ wage_report_regular_payroll_df' = NoFrame
    /\ selected_date_range' = <<>>
    /\ employee_name_input' = {}
    /\ selected_job_title' = All
    /\ selected_job_function' = All
    /\ selected_job_category' = All
    /\ selected_insperity_client_name' = All
    /\ filtered_df' = NoFrame
    /\ selected_target_variable' = <<>>
    /\ average_payroll_cost' = <<>>
    /\ ylim' = <<>>
    /\ UNCHANGED <<file, execs>>

Next ==
    \/ HeaderReconstructor
    \/ RecordLoader
    \/ ColumnProjector
    \/ FilterStage
    \/ Aggregator
    \/ Renderer
    \/ ControlChange

Spec == Init /\ [][Next]_vars

----------------------------------------------------------------------------
(* Properties *)

\* the run has bound filtered_df
PostFilter == stage >= 4 /\ ~(pc = "fault" /\ stage = 4)

\* the run has bound average_payroll_cost
PostAggregate == stage >= 5

RowsOf(df) == {df[i] : i \in 1..Len(df)}

InRange(r, range) ==
    DateLE(range[1], r[MMYYYYPayOnly]) /\ DateLE(r[MMYYYYPayOnly], range[2])

\* C1: every record of the filtered subset has its month bucket inside the
\* selected date range, both bounds inclusive, whatever the other controls are.
C1_DateRangeRespected ==
    PostFilter =>
        /\ DateLE(selected_date_range[1], selected_date_range[2])
        /\ \A r \in RowsOf(filtered_df) : InRange(r, selected_date_range)

\* a run whose date range excludes a Regular record and keeps another
C1_Witness ==
    /\ PostFilter
    /\ filtered_df # <<>>
    /\ \E r \in RowsOf(wage_report_regular_payroll_df) : ~InRange(r, selected_date_range)
    /\ \E r \in RowsOf(filtered_df) : r[MMYYYYPayOnly] = selected_date_range[2]
    /\ selected_job_title # All

\* C2: every record that reaches the filter stage, and every record of the
\* filtered subset, has Payroll Type exactly "Regular".
C2_OnlyRegular ==
    /\ \A r \in RowsOf(wage_report_regular_payroll_df) : r[PayrollType] = Regular
    /\ \A r \in RowsOf(filtered_df) : r[PayrollType] = Regular

\* a sheet with a dated non-Regular record has been loaded and filtered
C2_Witness ==
    /\ pc = "filtered"
    /\ filtered_df # <<>>
    /\ \E r \in RowsOf(ImportantColumns(wage_report_df)) : r[PayrollType] # Regular

\* C3: the aggregated series is sorted non-decreasing by period and no two of
\* its rows carry the same period label.
C3_SortedUniqueLabels ==
    PostAggregate =>
        \A i, j \in 1..Len(average_payroll_cost) :
            i < j =>
                /\ DateLE(average_payroll_cost[i].Period, average_payroll_cost[j].Period)
                /\ average_payroll_cost[i].PeriodLabel # average_payroll_cost[j].PeriodLabel

\* a series holding the same month of two different years
C3_Witness ==
    /\ PostAggregate
    /\ \E i, j \in 1..Len(average_payroll_cost) :
          /\ i < j
          /\ average_payroll_cost[i].Period[2] = average_payroll_cost[j].Period[2]
          /\ average_payroll_cost[i].Period[1] < average_payroll_cost[j].Period[1]

\* the four categorical selectboxes are at their "All" sentinel
AllSentinels ==
    /\ selected_job_title = All
    /\ selected_job_function = All
    /\ selected_job_category = All
    /\ selected_insperity_client_name = All

\* the pipeline with lines 105-127 left out
WithoutCategoricalFilters ==
    AveragePayrollCost(
        EmployeeNameFilter(
            DateRangeFilter(wage_report_regular_payroll_df, selected_date_range),
            employee_name_input),
        selected_target_variable)

\* C4: with "All" selected in the four categorical controls, the aggregated
\* series equals the one of a pipeline that has no categorical filters.
C4_AllEqualsNoFilter ==
    (PostAggregate /\ AllSentinels) => average_payroll_cost = WithoutCategoricalFilters

\* all four sentinels selected, a narrowed date range and name selection, a series drawn
C4_Witness ==
    /\ pc = "done"
    /\ AllSentinels
    /\ employee_name_input # {}
    /\ Len(average_payroll_cost) >= 2
    /\ Len(filtered_df) < Len(wage_report_regular_payroll_df)

\* the month a record's period ends in
MonthOf(r) == <<r[PeriodEndDate][1], r[PeriodEndDate][2]>>

InMonth(df, ym) == SelectSeq(df, LAMBDA r : MonthOf(r) = ym)

\* C6: the series has exactly one row per distinct month of the filtered
\* subset, and each row's value is sum / count of the target column over the
\* filtered records of that month.
C6_OneRowPerMonthMean ==
    PostAggregate =>
        /\ Len(average_payroll_cost) = Cardinality({MonthOf(r) : r \in RowsOf(filtered_df)})
        /\ \A i \in 1..Len(average_payroll_cost) :
              LET row == average_payroll_cost[i]
                  grp == InMonth(filtered_df, <<row.Period[1], row.Period[2]>>)
              IN  /\ row.Period[3] = 1
                  /\ Len(grp) > 0
                  /\ row.Average.den > 0
                  /\ row.Average.num * Len(grp) =
                         SumCol(grp, selected_target_variable) * row.Average.den

\* Jan-2024 values 100 and 200 and Feb-2024 value 300 give (Jan-2024, 150), (Feb-2024, 300)
C6_Witness ==
    /\ PostAggregate
    /\ selected_target_variable = PayrollCostAmount
    /\ Len(filtered_df) = 3
    /\ average_payroll_cost =
          << [Period |-> <<2024, 1, 1>>, Average |-> [num |-> 150, den |-> 1],
              PeriodLabel |-> <<"Jan", "-", 2024>>],
             [Period |-> <<2024, 2, 1>>, Average |-> [num |-> 300, den |-> 1],
              PeriodLabel |-> <<"Feb", "-", 2024>>] >>

\* C8: the y-axis bounds are the minimum and the maximum of the target column
\* over the whole Regular dataset, whatever the filter controls are.
C8_YLimGlobal ==
    pc = "done" =>
        LET all == {r[selected_target_variable] : r \in RowsOf(wage_report_regular_payroll_df)}
        IN  /\ ylim[1] \in all
            /\ ylim[2] \in all
            /\ \A v \in all : ylim[1] <= v /\ v <= ylim[2]

\* a chart of a narrowed subset whose own values lie strictly inside the bounds
C8_Witness ==
    /\ pc = "done"
    /\ filtered_df # <<>>
    /\ \A r \in RowsOf(filtered_df) :
          ylim[1] < r[selected_target_variable] /\ r[selected_target_variable] < ylim[2]

\* the stages the current run has entered, in the order 1..6
RunPrefix == 1..stage

\* C9 (as amended): every run enters the stages in the order 1, 2, ..., 6, each
\* at most once, and every control change starts a new run at stage 1: stage s
\* has been entered once per run that reached it.
C9_EveryRunFromStageOne ==
    /\ runs \in 1..(MaxRuns + 1)
    /\ \A s \in Stages :
          execs[s] = IF s \in RunPrefix THEN runs ELSE runs - 1
    /\ (pc = "start") = (stage = 0)
    /\ (pc = "done") => (stage = 6)

\* a second run, started by a control change, has loaded again and reached the chart
C9_Witness ==
    /\ runs = 2
    /\ pc = "done"
    /\ execs[1] = 2
    /\ execs[6] = 2

\* C9 as stated: the load stages 1, 2, 3 run once per session
C9_LoadStagesOnce ==
    \A s \in 1..3 : execs[s] <= 1

\* C5 as stated: an empty filtered subset gives an empty series and a run that
\* ends by reporting the empty result, never by a fault.
C5_EmptyReported ==
    (PostFilter /\ filtered_df = <<>> /\ pc \in {"done", "fault"}) =>
        /\ average_payroll_cost = <<>>
        /\ display = "empty"

\* the six filters of the chain, by position in the script
FilterIds == 1..6

ApplyFilter(k, df) ==
    CASE k = 1 -> DateRangeFilter(df, selected_date_range)
      [] k = 2 -> EmployeeNameFilter(df, employee_name_input)
      [] k = 3 -> JobTitleFilter(df, selected_job_title)
      [] k = 4 -> JobFunctionFilter(df, selected_job_function)
      [] k = 5 -> JobCategoryFilter(df, selected_job_category)
      [] k = 6 -> ClientNameFilter(df, selected_insperity_client_name)

\* A partial result is the set of filters applied so far and the frame they
\* left.  OneMore applies, to each partial result, each filter it has not used.
OneMore(partial) ==
    UNION {{[used |-> x.used \cup {k}, df |-> ApplyFilter(k, x.df)] :
               k \in FilterIds \ x.used} : x \in partial}

RECURSIVE AfterFilters(_)
AfterFilters(n) ==
    IF n = 0 THEN {[used |-> {}, df |-> wage_report_regular_payroll_df]}
    ELSE OneMore(AfterFilters(n - 1))

\* the frames that the six filters leave, over every order of applying them
AnyOrderResults == {x.df : x \in AfterFilters(Cardinality(FilterIds))}

\* a record satisfies every active predicate
SatisfiesAll(r) ==
    /\ InRange(r, selected_date_range)
    /\ employee_name_input # {} => r[EmployeeName] \in employee_name_input
    /\ selected_job_title # All => PdEq(r[JobTitle], selected_job_title)
    /\ selected_job_function # All => PdEq(r[JobFunction], selected_job_function)
    /\ selected_job_category # All => PdEq(r[JobCategory], selected_job_category)
    /\ selected_insperity_client_name # All =>
           PdEq(r[InsperityClientName], selected_insperity_client_name)

\* C7: the filtered subset is exactly the Regular records that satisfy all
\* active predicates, and applying the six filters in any order gives it too.
C7_ConjunctionAnyOrder ==
    pc = "filtered" =>
        /\ filtered_df = SelectSeq(wage_report_regular_payroll_df, SatisfiesAll)
        /\ AnyOrderResults = {filtered_df}

\* several filters are active at once and each of two of them alone keeps more
C7_Witness ==
    /\ pc = "filtered"
    /\ employee_name_input # {}
    /\ selected_job_title # All
    /\ selected_job_category # All
    /\ filtered_df # <<>>
    /\ Len(filtered_df) < Len(ApplyFilter(2, wage_report_regular_payroll_df))
    /\ Len(filtered_df) < Len(ApplyFilter(1, wage_report_regular_payroll_df))

----------------------------------------------------------------------------
(* The header reconstruction on arbitrary header cells *)

\* rows 7-10 of the sheet: header_rows.iloc[6:10]
HeaderRowCount == 4

Atoms == {"x", " ", "\t"}

Texts == UNION {[1..n -> Atoms] : n \in 0..MaxCell}

Cells == {Blank} \cup {Txt(s) : s \in Texts}

\* sheets of one column and no data rows
HeaderFiles == {[header |-> <<col>>, data |-> <<>>] : col \in [1..HeaderRowCount -> Cells]}

InitHeader ==
    /\ file \in HeaderFiles
    /\ pc = "start"
    /\ runs = 1
    /\ stage = 0
    /\ execs = [s \in Stages |-> 0]
    /\ display = "none"
    /\ Unbound

NextHeader == HeaderReconstructor

SpecHeader == InitHeader /\ [][NextHeader]_vars

\* C10: no reconstructed header label has two consecutive spaces, nor leading
\* or trailing whitespace, whatever the four header cells hold.
C10_LabelsClean ==
    pc = "header" =>
        \A c \in 1..Len(cleaned_header) :
            LET l == cleaned_header[c]
            IN  /\ \A i \in 1..(Len(l) - 1) : ~(IsSpace(l[i]) /\ IsSpace(l[i + 1]))
                /\ l # <<>> => ~IsSpace(l[1]) /\ ~IsSpace(l[Len(l)])
                /\ \A i \in 1..Len(l) : IsSpace(l[i]) => l[i] = " "

\* a blank row, a leading tab and an inner whitespace run were cleaned into "x x"
C10_Witness ==
    /\ pc = "header"
    /\ file.header[1][1] = Blank
    /\ file.header[1][2] = Txt(<<"\t">>)
    /\ file.header[1][3] = Txt(<<"x">>)
    /\ file.header[1][4] = Txt(<<"x">>)
    /\ cleaned_header[1] = <<"x", " ", "x">>

====
